---------------------------- MODULE Spec2Model ----------------------------
(***************************************************************************)
(* A model of the connctd device-abstraction client (package sdk):         *)
(* the Thing/Component/Capability/Property/Action tree, registration and   *)
(* deregistration, the length-prefixed framing of send and read, the       *)
(* dispatch loop and the update counter.                                   *)
(*                                                                         *)
(* Conventions.  A Go pointer to a tree node is modelled by the identifier *)
(* of the node it points to, a nil pointer by NoRef.  A Go string that the *)
(* code inspects character by character (a Property or Action name) is a   *)
(* sequence of one-character strings; other strings are TLA+ strings.      *)
(* A Go error is a record with a kind, the nil error is NoErr.             *)
(***************************************************************************)
EXTENDS Integers, Sequences, FiniteSets, TLC

VARIABLES
    things,             \* c.things: the registered Things, in order
    updateCounter,      \* c.updateCounter
    connected,          \* c.connected
    conn,               \* c.conn: "none" (nil), "open" or "closed"
    writerErr,          \* the sticky error of c.writer (bufio.Writer)
    writerBuf,          \* what c.writer holds and has not flushed yet
    wire,               \* what c.writer has flushed to the connection
    loops,              \* TRUE once Connect has started read and handleServerMessages
    inStream,           \* bytes the peer has written and read() has not read yet
    lengthBuf,          \* read(): lengthBuf
    messageBuf,         \* read(): messageBuf
    expectedLength,     \* read(): expectedLength
    receivedBytesTotal, \* read(): receivedBytesTotal
    readPc,             \* read(): position, "len", "data", "unmarshal" or "done"
    receiveChan,        \* c.receiveChan
    pc,                 \* position of the caller's thread and of handleServerMessages
    cur,                \* handleServerMessages: msg
    snap,               \* sendThings: things (per actor)
    val,                \* incrementupdateCounter: val (per actor)
    ticket,             \* history: c.updateCounter as the actor's increment left it
    panicked,           \* TRUE once a goroutine has panicked (nil dereference)
    ret,                \* the last call the caller's thread has returned from
    updates,            \* history: the Property.Update calls made, in order
    handlerCalls,       \* history: every Action.Execute invocation, in order
    peerSent,           \* history: the messages the peer has framed onto the stream
    emitted,            \* history: the messages read() has put on receiveChan
    stamped,            \* history: the values incrementupdateCounter has returned
    disconnects,        \* history: number of OnDisconnect invocations
    dispatched          \* history: the messages handleServerMessages has taken

regVars  == <<things>>
connVars == <<connected, conn, writerErr, writerBuf, wire, loops>>
readVars == <<inStream, lengthBuf, messageBuf, expectedLength, receivedBytesTotal,
              readPc, receiveChan, peerSent, emitted, disconnects, dispatched>>
dispVars == <<pc, cur, snap, val, ticket, updateCounter, handlerCalls, stamped>>
callVars == <<ret, updates>>
vars     == <<things, updateCounter, connected, conn, writerErr, writerBuf, wire, loops,
              inStream, lengthBuf, messageBuf, expectedLength, receivedBytesTotal,
              readPc, receiveChan, pc, cur, snap, val, ticket, panicked, ret, updates,
              handlerCalls, peerSent, emitted, stamped, disconnects, dispatched>>

-----------------------------------------------------------------------------
(* Bounds of the model.                                                    *)

MaxNameLen == 2     \* longest Property/Action name drawn for the name check
MaxBatch   == 2     \* longest batch handed to Abstract
MaxUpdates == 2     \* Property.Update calls in one behaviour
MaxPush    == 2     \* value of the update counter up to which PushThings is called
MaxMsgs    == 2     \* messages the peer frames onto the stream in one behaviour
MaxChunk   == 2     \* conn.Read returns up to MaxChunk bytes, or all there is

-----------------------------------------------------------------------------
(* Generic helpers.                                                        *)

NoRef == "nil"
NoErr == [kind |-> "nil"]

Min(a, b) == IF a < b THEN a ELSE b

RECURSIVE Concat(_)
Concat(ss) == IF ss = <<>> THEN <<>> ELSE Head(ss) \o Concat(Tail(ss))

Range(s) == {s[i] : i \in 1..Len(s)}

SeqsUpTo(S, n) == UNION {[1..k -> S] : k \in 0..n}

-----------------------------------------------------------------------------
(* The device tree.                                                        *)

MkValue(type, symbol, value) == [Type |-> type, Symbol |-> symbol, Value |-> value]

MkProperty(name, value) ==
    [Name |-> name, Value |-> MkValue("STRING", "", value),
     client |-> NoRef, parent |-> NoRef]

MkAction(name, execute) == [Name |-> name, Execute |-> execute, parent |-> NoRef]

MkCapability(id, actions, properties) ==
    [Id |-> id, Actions |-> actions, Properties |-> properties, parent |-> NoRef]

MkComponent(id, capabilities, properties, actions) ==
    [Id |-> id, Capabilities |-> capabilities, Properties |-> properties,
     Actions |-> actions, parent |-> NoRef]

MkThing(id, components) == [Id |-> id, Components |-> components]

(* The characters of the class [A-Za-z0-9].                                *)
Alnum ==
    {"A","B","C","D","E","F","G","H","I","J","K","L","M",
     "N","O","P","Q","R","S","T","U","V","W","X","Y","Z",
     "a","b","c","d","e","f","g","h","i","j","k","l","m",
     "n","o","p","q","r","s","t","u","v","w","x","y","z",
     "0","1","2","3","4","5","6","7","8","9"}

(* validNameRegexp.MatchString(name) for ^[A-Za-z0-9]+$: at least one      *)
(* character, every character of the class.                                *)
validNameRegexpStar(name) == \A i \in 1..Len(name) : name[i] \in Alnum

validNameRegexp(name) ==
    /\ Len(name) >= 1
    /\ \A i \in 1..Len(name) : name[i] \in Alnum

InvalidProperty(name) == [kind |-> "invalidProperty", name |-> name]
InvalidAction(name)   == [kind |-> "invalidAction", name |-> name]
Duplicate(id)         == [kind |-> "duplicate", id |-> id]
NotFound(id)          == [kind |-> "notFound", id |-> id]

PropertyChecks(properties) ==
    [i \in 1..Len(properties) |->
        IF validNameRegexp(properties[i].Name) THEN NoErr
        ELSE InvalidProperty(properties[i].Name)]

ActionChecks(actions) ==
    [i \in 1..Len(actions) |->
        IF validNameRegexp(actions[i].Name) THEN NoErr
        ELSE InvalidAction(actions[i].Name)]

CapabilityChecks(capability) ==
    PropertyChecks(capability.Properties) \o ActionChecks(capability.Actions)

(* The name checks of validateThing in the order the loops make them: per  *)
(* component its properties, its actions, then each capability's           *)
(* properties and actions.                                                 *)
ComponentChecks(component) ==
    PropertyChecks(component.Properties)
    \o ActionChecks(component.Actions)
    \o Concat([k \in 1..Len(component.Capabilities) |->
                  CapabilityChecks(component.Capabilities[k])])

NameChecks(t) ==
    Concat([j \in 1..Len(t.Components) |-> ComponentChecks(t.Components[j])])

FirstError(checks) ==
    IF \E i \in 1..Len(checks) : checks[i] # NoErr
    THEN checks[CHOOSE i \in 1..Len(checks) :
                   /\ checks[i] # NoErr
                   /\ \A j \in 1..(i - 1) : checks[j] = NoErr]
    ELSE NoErr

validateThingNoDuplicateCheck(ths, t) == FirstError(NameChecks(t))

validateThing(ths, t) ==
    IF \E i \in 1..Len(ths) : ths[i].Id = t.Id
    THEN Duplicate(t.Id)
    ELSE FirstError(NameChecks(t))

(* The back-references abstract sets: component.parent, the client of      *)
(* every property, the parent of a capability's properties, and            *)
(* capability.parent.  It sets no parent on a property declared directly   *)
(* on a component and none on an action.                                   *)
WireCapability(capability, component) ==
    [capability EXCEPT
        !.Properties = [i \in 1..Len(capability.Properties) |->
            [capability.Properties[i] EXCEPT !.client = "client",
                                             !.parent = capability.Id]],
        !.parent = component.Id]

WireComponent(component, t) ==
    [component EXCEPT
        !.parent = t.Id,
        !.Properties = [i \in 1..Len(component.Properties) |->
            [component.Properties[i] EXCEPT !.client = "client"]],
        !.Capabilities = [k \in 1..Len(component.Capabilities) |->
            WireCapability(component.Capabilities[k], component)]]

WireThing(t) ==
    [t EXCEPT !.Components = [j \in 1..Len(t.Components) |->
                                 WireComponent(t.Components[j], t)]]

(* abstract(t): the registered set and the error it returns.               *)
abstract(ths, t) ==
    LET err == validateThing(ths, t)
    IN  IF err # NoErr
        THEN [things |-> ths, err |-> err]
        ELSE [things |-> Append(ths, WireThing(t)), err |-> NoErr]

RECURSIVE AbstractFold(_, _)
AbstractFold(ths, batch) ==
    IF batch = <<>> THEN [things |-> ths, err |-> NoErr]
    ELSE LET r == abstract(ths, Head(batch))
         IN  IF r.err # NoErr THEN r ELSE AbstractFold(r.things, Tail(batch))

AbstractAllOrNothing(ths, batch) ==
    LET r == AbstractFold(ths, batch)
    IN  IF r.err # NoErr THEN [things |-> ths, err |-> r.err] ELSE r

(* Abstract(things...): abstract each in turn, return at the first error.  *)
RECURSIVE AbstractAll(_, _)
AbstractAll(ths, batch) ==
    IF batch = <<>> THEN [things |-> ths, err |-> NoErr]
    ELSE LET r == abstract(ths, Head(batch))
         IN  IF r.err # NoErr THEN r ELSE AbstractAll(r.things, Tail(batch))

(* RemoveThing(t): the value of i (counted from 1) when the range loop     *)
(* ends.  The loop leaves i at the first match; without a match it leaves  *)
(* i at the last index, and at its zero value (the first index) when       *)
(* c.things is empty.                                                      *)
RemoveLoopIndex(ths, id) ==
    IF \E i \in 1..Len(ths) : ths[i].Id = id
    THEN CHOOSE i \in 1..Len(ths) :
            /\ ths[i].Id = id
            /\ \A j \in 1..(i - 1) : ths[j].Id # id
    ELSE IF Len(ths) = 0 THEN 1 ELSE Len(ths)

(* c.things without its last element.                                     *)
RemoveLast(ths, i) == SubSeq(ths, 1, Len(ths) - 1)

(* append(c.things[:i], c.things[i+1:]...): c.things without its i-th      *)
(* element.                                                                *)
RemoveAt(ths, i) == SubSeq(ths, 1, i - 1) \o SubSeq(ths, i + 1, Len(ths))

removeThing(ths, id) ==
    LET i == RemoveLoopIndex(ths, id)
    IN  IF i > Len(ths)
        THEN [things |-> ths, err |-> NotFound(id)]
        ELSE [things |-> RemoveAt(ths, i), err |-> NoErr]

-----------------------------------------------------------------------------
(* The Things the caller builds.                                           *)

on    == <<"o", "n">>
go    == <<"g", "o">>
no    == <<"n", "o">>
level == <<"l", "v">>
reset == <<"r", "s">>

(* A lamp: one component with a capability (a property, an action whose    *)
(* handler succeeds, one whose handler fails) and a property and an action *)
(* declared directly on the component.                                     *)
Lamp ==
    MkThing("t1",
        <<MkComponent("c1",
            <<MkCapability("switch",
                <<MkAction(go, "ok"), MkAction(no, "fail")>>,
                <<MkProperty(on, "0")>>)>>,
            <<MkProperty(level, "0")>>,
            <<MkAction(reset, "ok")>>)>>)

(* Another tree with the Lamp's identifier.                                *)
LampTwin ==
    MkThing("t1",
        <<MkComponent("c9", <<MkCapability("dim", <<>>, <<MkProperty(level, "5")>>)>>,
                      <<>>, <<>>)>>)

Sensor ==
    MkThing("t2",
        <<MkComponent("c1",
            <<MkCapability("probe", <<MkAction(go, "fail")>>, <<MkProperty(on, "1")>>)>>,
            <<>>, <<>>)>>)

(* Things with one invalid name: "o n" on a capability's property, "g-o"   *)
(* on an action declared directly on the component.                        *)
BadProperty ==
    MkThing("t3",
        <<MkComponent("c1",
            <<MkCapability("switch", <<MkAction(go, "ok")>>,
                           <<MkProperty(<<"o", " ", "n">>, "0")>>)>>,
            <<>>, <<>>)>>)

BadAction ==
    MkThing("t4",
        <<MkComponent("c1", <<>>, <<>>, <<MkAction(<<"g", "-", "o">>, "ok")>>)>>)

DeviceCatalog == {Lamp, LampTwin, Sensor, BadProperty, BadAction}
ThingIds      == {"t1", "t2", "t3", "t4", "n1", "zz"}

(* Things for the name check: one named item in one of the four places a   *)
(* name can stand, the name drawn from all strings up to MaxNameLen over a *)
(* sample of the character classes.                                        *)
NameAlphabet == {"a", "Z", "7", " ", "-"}
Names        == SeqsUpTo(NameAlphabet, MaxNameLen)
NameSlots    == {"componentProperty", "componentAction",
                 "capabilityProperty", "capabilityAction"}

NameThing(slot, name) ==
    MkThing("n1",
        <<MkComponent("c1",
            <<MkCapability("switch",
                IF slot = "capabilityAction" THEN <<MkAction(go, "ok"), MkAction(name, "ok")>>
                                             ELSE <<MkAction(go, "ok")>>,
                IF slot = "capabilityProperty" THEN <<MkProperty(name, "0")>>
                                               ELSE <<>>)>>,
            IF slot = "componentProperty" THEN <<MkProperty(on, "0"), MkProperty(name, "0")>>
                                          ELSE <<MkProperty(on, "0")>>,
            IF slot = "componentAction" THEN <<MkAction(name, "ok")>> ELSE <<>>)>>)

NameThings == {NameThing(slot, name) : slot \in NameSlots, name \in Names}

-----------------------------------------------------------------------------
(* Framing on the write path.                                              *)

PROTOCOL_VERSION == 1
VarintBase       == 128

(* binary.PutUvarint: seven bits per byte, least significant group first,  *)
(* the high bit set on every byte but the last.                            *)
RECURSIVE PutUvarint(_)
PutUvarint(n) ==
    IF n < VarintBase THEN <<n>>
    ELSE <<(n % VarintBase) + VarintBase>> \o PutUvarint(n \div VarintBase)

(* proto.Marshal of a ClientMessage.  The client never looks into these    *)
(* bytes: one opaque unit, the message itself, stands for them.            *)
MarshalClient(msg) == <<msg>>

(* What send writes for the encoded message data: the length prefix, then  *)
(* data, in two Write calls.  A piece is what one Write call hands to      *)
(* c.writer; the piece of a prefix names the data whose length it encodes. *)
PrefixOf(data)  == [part |-> "prefix", data |-> data]
PayloadOf(data) == [part |-> "payload", data |-> data]
PieceBytes(piece) ==
    IF piece.part = "prefix" THEN PutUvarint(Len(piece.data)) ELSE piece.data

FrameParts(data) == <<PrefixOf(data), PayloadOf(data)>>
FrameBytes(data) == PieceBytes(FrameParts(data)[1]) \o PieceBytes(FrameParts(data)[2])

WriteErr == [kind |-> "write"]
DialErr  == [kind |-> "dial"]
CloseErr == [kind |-> "close"]

(* The write path of c.writer is usable: the connection is open and no     *)
(* earlier Flush has failed.                                               *)
Usable == conn = "open" /\ ~writerErr

(* send(msg), run without another send in between: what it leaves on the  *)
(* wire and in the writer, and the error it returns.  The two pieces go    *)
(* into c.writer and Flush hands all c.writer holds to the connection.     *)
(* Without a writer (no Connect yet) the call dereferences nil and panics. *)
send(msg) ==
    IF conn = "none"
    THEN [panic |-> TRUE, wire |-> wire, writerBuf |-> writerBuf,
          writerErr |-> writerErr, err |-> NoErr]
    ELSE IF Usable
    THEN [panic |-> FALSE, wire |-> wire \o writerBuf \o FrameParts(MarshalClient(msg)),
          writerBuf |-> <<>>, writerErr |-> FALSE, err |-> NoErr]
    ELSE [panic |-> FALSE, wire |-> wire, writerBuf |-> writerBuf,
          writerErr |-> TRUE, err |-> WriteErr]

IsPayload(piece) == piece.part = "payload"

(* The messages on the wire, in order.                                     *)
Sent == [i \in 1..Len(SelectSeq(wire, IsPayload)) |->
            SelectSeq(wire, IsPayload)[i].data[1]]

-----------------------------------------------------------------------------
(* The messages of the server and their encoding.                          *)

NoAction == [set |-> FALSE]

Execute(thingId, componentId, action, parameters, sequence) ==
    [set |-> TRUE,
     path |-> [ThingId |-> thingId, ComponentId |-> componentId, Action |-> action],
     parameters |-> parameters, sequence |-> sequence]

(* A ServerMessage: its two optional fields, and pad, the number of        *)
(* further bytes its encoding carries.                                     *)
ServerMessage(requestThings, action, pad) ==
    [requestThings |-> requestThings, action |-> action, pad |-> pad]

(* The field contents the peer sends.  The encoding of a message is the    *)
(* index of its fields in this table, followed by pad bytes of PadByte;    *)
(* the message with no field and no padding encodes to no bytes at all.    *)
MsgBodies ==
    << [requestThings |-> TRUE,  action |-> NoAction],
       [requestThings |-> FALSE, action |-> Execute("t1", "c1", go, <<"x", "y">>, 7)],
       [requestThings |-> FALSE, action |-> Execute("t1", "c1", no, <<>>, 8)],
       [requestThings |-> FALSE, action |-> Execute("t2", "c1", go, <<"z">>, 9)],
       [requestThings |-> FALSE, action |-> Execute("t1", "c1", reset, <<>>, 10)],
       [requestThings |-> FALSE, action |-> Execute("zz", "c1", go, <<>>, 11)],
       [requestThings |-> FALSE, action |-> Execute("t1", "c7", go, <<>>, 12)],
       [requestThings |-> FALSE, action |-> Execute("t1", "c1", on, <<>>, 13)],
       [requestThings |-> TRUE,  action |-> Execute("t1", "c1", go, <<>>, 14)] >>

PadByte == 0

BodyOf(msg) == [requestThings |-> msg.requestThings, action |-> msg.action]

BodyTag(body) == CHOOSE i \in 1..Len(MsgBodies) : MsgBodies[i] = body

(* proto.Marshal of a ServerMessage (what the peer does).                  *)
MarshalServer(msg) ==
    IF msg = ServerMessage(FALSE, NoAction, 0) THEN <<>>
    ELSE <<BodyTag(BodyOf(msg))>> \o [i \in 1..msg.pad |-> PadByte]

(* proto.Unmarshal into a ServerMessage: bytes that are no encoding give   *)
(* an error.                                                               *)
UnmarshalServer(bytes) ==
    IF bytes = <<>> THEN [err |-> FALSE, msg |-> ServerMessage(FALSE, NoAction, 0)]
    ELSE IF /\ bytes[1] \in 1..Len(MsgBodies)
            /\ \A i \in 2..Len(bytes) : bytes[i] = PadByte
    THEN [err |-> FALSE,
          msg |-> ServerMessage(MsgBodies[bytes[1]].requestThings,
                                MsgBodies[bytes[1]].action, Len(bytes) - 1)]
    ELSE [err |-> TRUE, msg |-> ServerMessage(FALSE, NoAction, 0)]

(* binary.ReadUvarint on a bytes.Buffer holding buf: it takes bytes off    *)
(* the front until one has its high bit clear; when the buffer runs out    *)
(* first it returns an error, and the bytes it took are gone.              *)
RECURSIVE ReadUvarintFrom(_, _, _)
ReadUvarintFrom(buf, x, weight) ==
    IF buf = <<>> THEN [err |-> TRUE, value |-> x, rest |-> <<>>]
    ELSE IF Head(buf) < VarintBase
    THEN [err |-> FALSE, value |-> x + Head(buf) * weight, rest |-> Tail(buf)]
    ELSE ReadUvarintFrom(Tail(buf), x + (Head(buf) - VarintBase) * weight,
                         weight * VarintBase)

ReadUvarint(buf) == ReadUvarintFrom(buf, 0, 1)

-----------------------------------------------------------------------------
(* The state after NewClient.                                              *)

Actors == {"caller", "dispatch"}
NoMsg  == ServerMessage(FALSE, NoAction, 0)
ChanCap == 10

Init ==
    /\ things = <<>>
    /\ updateCounter = 0
    /\ connected = FALSE
    /\ conn = "none"
    /\ writerErr = FALSE
    /\ writerBuf = <<>>
    /\ wire = <<>>
    /\ loops = FALSE
    /\ inStream = <<>>
    /\ lengthBuf = <<>>
    /\ messageBuf = <<>>
    /\ expectedLength = 0
    /\ receivedBytesTotal = 0
    /\ readPc = "len"
    /\ receiveChan = <<>>
    /\ pc = [a \in Actors |-> "idle"]
    /\ cur = NoMsg
    /\ snap = [a \in Actors |-> <<>>]
    /\ val = [a \in Actors |-> 0]
    /\ ticket = [a \in Actors |-> 0]
    /\ panicked = FALSE
    /\ ret = [op |-> "NewClient", err |-> NoErr]
    /\ updates = <<>>
    /\ handlerCalls = <<>>
    /\ peerSent = <<>>
    /\ emitted = <<>>
    /\ stamped = <<>>
    /\ disconnects = 0
    /\ dispatched = <<>>

(* The caller's thread is between two calls and nothing has panicked.      *)
CallerReady == ~panicked /\ pc["caller"] = "idle"

-----------------------------------------------------------------------------
(* Registration and deregistration.                                        *)

(* Client.Abstract(batch...) *)
Abstract(batch) ==
    /\ CallerReady
    /\ LET r == AbstractAll(things, batch)
       IN  /\ things' = r.things
           /\ ret' = [op |-> "Abstract", arg |-> batch, err |-> r.err,
                      before |-> things, conn |-> conn]
    /\ UNCHANGED <<connVars, readVars, dispVars, panicked, updates>>

(* Client.RemoveThing(t), t a Thing with identifier id *)
RemoveThing(id) ==
    /\ CallerReady
    /\ LET r == removeThing(things, id)
       IN  /\ things' = r.things
           /\ ret' = [op |-> "RemoveThing", arg |-> id, err |-> r.err,
                      before |-> things, conn |-> conn]
    /\ UNCHANGED <<connVars, readVars, dispVars, panicked, updates>>

RegistryBatches == SeqsUpTo(DeviceCatalog, MaxBatch)

Registered(id) == \E i \in 1..Len(things) : things[i].Id = id

AbstractCatalog == \E batch \in RegistryBatches : Abstract(batch)
RemoveAny       == \E id \in ThingIds : RemoveThing(id)

RegistryNext == AbstractCatalog \/ RemoveAny

(* The name check: a Thing of NameThings is registered while its           *)
(* identifier is free, next to a Sensor that may or may not be registered. *)
AbstractNamed  == ~Registered("n1") /\ \E t \in NameThings : Abstract(<<t>>)
AbstractSensor == Abstract(<<Sensor>>)

RemoveNamed    == \E id \in {"n1", "t2"} : RemoveThing(id)

NamesNext == AbstractNamed \/ AbstractSensor \/ RemoveNamed

SpecNames == Init /\ [][NamesNext]_vars

SpecRegistry == Init /\ [][RegistryNext]_vars

-----------------------------------------------------------------------------
(* Claims about registration.                                              *)

IdsOf(ths) == {ths[i].Id : i \in 1..Len(ths)}

(* Every Property and Action name of a Thing, wherever it is declared.     *)
AllNames(t) ==
    UNION {
        {c.Properties[i].Name : i \in 1..Len(c.Properties)}
        \cup {c.Actions[i].Name : i \in 1..Len(c.Actions)}
        \cup UNION {
            {cap.Properties[i].Name : i \in 1..Len(cap.Properties)}
            \cup {cap.Actions[i].Name : i \in 1..Len(cap.Actions)}
            : cap \in Range(c.Capabilities)}
        : c \in Range(t.Components)}

(* A name is good when it is not empty and holds no space and no hyphen    *)
(* (the non-alphanumeric characters of the names drawn).                   *)
GoodName(name) == name # <<>> /\ \A i \in 1..Len(name) : name[i] \notin {" ", "-"}

(* C2: registering one Thing whose identifier is free succeeds, adding it  *)
(* as the last registered Thing, if every Property and Action name of its  *)
(* tree is alphanumeric and not empty; otherwise it fails with a naming    *)
(* error and the registered set is unchanged.                              *)
C2_NameValidation ==
    (ret.op = "Abstract" /\ Len(ret.arg) = 1 /\ ret.arg[1].Id \notin IdsOf(ret.before))
    => LET t == ret.arg[1]
       IN  IF \A name \in AllNames(t) : GoodName(name)
           THEN /\ ret.err = NoErr
                /\ Len(things) = Len(ret.before) + 1
                /\ SubSeq(things, 1, Len(ret.before)) = ret.before
                /\ things[Len(things)].Id = t.Id
           ELSE /\ ret.err.kind \in {"invalidProperty", "invalidAction"}
                /\ ~GoodName(ret.err.name)
                /\ things = ret.before

C2_Witness ==
    /\ ret.op = "Abstract"
    /\ ret.arg = <<NameThing("capabilityAction", <<"a", "-">>)>>
    /\ ret.before # <<>>
    /\ ret.err = InvalidAction(<<"a", "-">>)
    /\ things = ret.before

(* C3: no two registered Things share an identifier, and a call that       *)
(* registers a Thing whose identifier is already registered fails with a   *)
(* duplicate error and leaves the registered set as it was.                *)
C3_UniqueIds ==
    /\ \A i, j \in 1..Len(things) : things[i].Id = things[j].Id => i = j
    /\ (ret.op = "Abstract" /\ Len(ret.arg) >= 1 /\ ret.arg[1].Id \in IdsOf(ret.before))
       => /\ ret.err = Duplicate(ret.arg[1].Id)
          /\ things = ret.before

C3_Witness ==
    /\ ret.op = "Abstract"
    /\ ret.arg = <<LampTwin>>
    /\ ret.err = Duplicate("t1")
    /\ Len(things) = 2
    /\ things[2] = WireThing(Lamp)

(* C8 as claimed: RemoveThing of a Thing whose identifier is not           *)
(* registered returns a not-found error, whatever the registered set.      *)
C8_NotFoundAsClaimed ==
    (ret.op = "RemoveThing" /\ ret.arg \notin IdsOf(ret.before))
    => ret.err = NotFound(ret.arg)

(* C9: when Tn is the first entry of a batch to fail validation, Abstract  *)
(* returns that error, T1..T(n-1) have been added in order and nothing     *)
(* else has.                                                               *)
WiredPrefix(batch, n) == [i \in 1..n |-> WireThing(batch[i])]

C9_PartialBatch ==
    (ret.op = "Abstract" /\ ret.err # NoErr)
    => \E n \in 1..Len(ret.arg) :
          /\ \A i \in 1..(n - 1) :
                validateThing(ret.before \o WiredPrefix(ret.arg, i - 1), ret.arg[i]) = NoErr
          /\ ret.err = validateThing(ret.before \o WiredPrefix(ret.arg, n - 1), ret.arg[n])
          /\ things = ret.before \o WiredPrefix(ret.arg, n - 1)

C9_Witness ==
    /\ ret.op = "Abstract"
    /\ ret.arg = <<Sensor, BadProperty>>
    /\ ret.before = <<WireThing(Lamp)>>
    /\ ret.err = InvalidProperty(<<"o", " ", "n">>)
    /\ things = <<WireThing(Lamp), WireThing(Sensor)>>

-----------------------------------------------------------------------------
(* The connection.                                                         *)

Hello == [kind |-> "hello", unitId |-> "unit", token |-> "token",
          protocolVersion |-> PROTOCOL_VERSION]

(* Client.Connect(unitId, token) for a tcp:// or ssl:// host.  dialOk: the *)
(* dial succeeds; alive: the transport still works when the handshake is   *)
(* flushed.  The model follows one connection: Connect is called until a   *)
(* dial has succeeded.                                                     *)
Connect(dialOk, alive) ==
    /\ CallerReady
    /\ conn = "none"
    /\ IF ~dialOk
       THEN /\ ret' = [op |-> "Connect", err |-> DialErr]
            /\ UNCHANGED <<connVars>>
       ELSE /\ conn' = IF alive THEN "open" ELSE "closed"
            /\ loops' = TRUE
            /\ connected' = TRUE
            /\ wire' = IF alive THEN wire \o FrameParts(MarshalClient(Hello))
                                ELSE wire
            /\ writerBuf' = <<>>
            /\ writerErr' = ~alive
            /\ ret' = [op |-> "Connect", err |-> IF alive THEN NoErr ELSE WriteErr]
    /\ UNCHANGED <<regVars, readVars, dispVars, panicked, updates>>

(* Client.Disconnect(); c.conn.Close() on a nil c.conn panics.             *)
Disconnect ==
    /\ CallerReady
    /\ IF conn = "none"
       THEN /\ panicked' = TRUE
            /\ connected' = FALSE
            /\ UNCHANGED <<conn, ret>>
       ELSE /\ connected' = FALSE
            /\ conn' = "closed"
            /\ ret' = [op |-> "Disconnect",
                       err |-> IF conn = "closed" THEN CloseErr ELSE NoErr]
            /\ UNCHANGED panicked
    /\ UNCHANGED <<regVars, writerErr, writerBuf, wire, loops, readVars, dispVars, updates>>

(* The transport fails or the peer closes it.                              *)
ConnDrop ==
    /\ ~panicked
    /\ conn = "open"
    /\ conn' = "closed"
    /\ UNCHANGED <<regVars, connected, writerErr, writerBuf, wire, loops, readVars, dispVars,
                   panicked, callVars>>

-----------------------------------------------------------------------------
(* Property.Update.                                                        *)

(* The places of the properties of the registered Things: thing t,         *)
(* component c, capability cap (0 for a property declared directly on the  *)
(* component), property p.                                                 *)
ValidLoc(loc) ==
    /\ loc.t \in 1..Len(things)
    /\ loc.c \in 1..Len(things[loc.t].Components)
    /\ IF loc.cap = 0
       THEN loc.p \in 1..Len(things[loc.t].Components[loc.c].Properties)
       ELSE /\ loc.cap \in 1..Len(things[loc.t].Components[loc.c].Capabilities)
            /\ loc.p \in 1..Len(things[loc.t].Components[loc.c]
                                    .Capabilities[loc.cap].Properties)

PropertyLocs ==
    {loc \in [t : 1..Len(things), c : 1..2, cap : 0..2, p : 1..2] : ValidLoc(loc)}

PropertyAt(loc) ==
    IF loc.cap = 0
    THEN things[loc.t].Components[loc.c].Properties[loc.p]
    ELSE things[loc.t].Components[loc.c].Capabilities[loc.cap].Properties[loc.p]

(* p.parent.parent.Id and p.parent.parent.parent.Id, for a property whose  *)
(* parent is set.                                                          *)
PropertyPath(loc) ==
    LET component  == things[loc.t].Components[loc.c]
        capability == component.Capabilities[loc.cap]
    IN  [ThingId |-> component.parent, ComponentId |-> capability.parent,
         Property |-> PropertyAt(loc).Name]

PropertyChange(loc, newValue) ==
    [kind |-> "propertyChange", path |-> PropertyPath(loc),
     value |-> [Value |-> newValue, ValueType |-> PropertyAt(loc).Value.Type,
                Symbol |-> PropertyAt(loc).Value.Symbol]]

UpdateEntry(loc, newValue, sent, err) ==
    [loc |-> loc, value |-> newValue, stored |-> PropertyAt(loc).Value.Value,
     usable |-> Usable, conn |-> conn, sent |-> sent, err |-> err]

(* The registered Things with newValue stored in the property at loc.      *)
StoreValue(loc, newValue) ==
    IF loc.cap = 0
    THEN [things EXCEPT ![loc.t].Components[loc.c].Properties[loc.p]
                            .Value.Value = newValue]
    ELSE [things EXCEPT ![loc.t].Components[loc.c].Capabilities[loc.cap]
                            .Properties[loc.p].Value.Value = newValue]

(* An Update that stores newValue in p.Value as well.                      *)
UpdateStoring(loc, newValue) ==
    /\ CallerReady
    /\ ValidLoc(loc)
    /\ Len(updates) < MaxUpdates
    /\ IF PropertyAt(loc).Value.Value = newValue
       THEN /\ updates' = Append(updates, UpdateEntry(loc, newValue, 0, NoErr))
            /\ ret' = [op |-> "Update", err |-> NoErr]
            /\ UNCHANGED <<wire, writerErr, writerBuf, panicked>>
       ELSE IF PropertyAt(loc).parent = NoRef
       THEN /\ panicked' = TRUE
            /\ UNCHANGED <<wire, writerErr, writerBuf, ret, updates>>
       ELSE LET r == send(PropertyChange(loc, newValue))
            IN  /\ panicked' = r.panic
                /\ wire' = r.wire
                /\ writerBuf' = r.writerBuf
                /\ writerErr' = r.writerErr
                /\ IF r.panic THEN UNCHANGED <<ret, updates>>
                   ELSE /\ updates' = Append(updates,
                               UpdateEntry(loc, newValue,
                                           IF r.err = NoErr THEN 1 ELSE 0, NoErr))
                        /\ ret' = [op |-> "Update", err |-> NoErr]
    /\ things' = StoreValue(loc, newValue)
    /\ UNCHANGED <<connected, conn, loops, readVars, dispVars>>

(* p.Update(newValue) for the property p at loc.  Nothing is sent when the *)
(* value is the stored one.  Otherwise the path is built through p.parent, *)
(* which is nil for a property declared directly on a component (a panic), *)
(* the message is sent, the error of send is dropped and nil is returned.  *)
(* p.Value is not assigned.                                                *)
Update(loc, newValue) ==
    /\ CallerReady
    /\ ValidLoc(loc)
    /\ Len(updates) < MaxUpdates
    /\ IF PropertyAt(loc).Value.Value = newValue
       THEN /\ updates' = Append(updates, UpdateEntry(loc, newValue, 0, NoErr))
            /\ ret' = [op |-> "Update", err |-> NoErr]
            /\ UNCHANGED <<wire, writerErr, writerBuf, panicked>>
       ELSE IF PropertyAt(loc).parent = NoRef
       THEN /\ panicked' = TRUE
            /\ UNCHANGED <<wire, writerErr, writerBuf, ret, updates>>
       ELSE LET r == send(PropertyChange(loc, newValue))
            IN  /\ panicked' = r.panic
                /\ wire' = r.wire
                /\ writerBuf' = r.writerBuf
                /\ writerErr' = r.writerErr
                /\ IF r.panic THEN UNCHANGED <<ret, updates>>
                   ELSE /\ updates' = Append(updates,
                               UpdateEntry(loc, newValue,
                                           IF r.err = NoErr THEN 1 ELSE 0, NoErr))
                        /\ ret' = [op |-> "Update", err |-> NoErr]
    /\ UNCHANGED <<regVars, connected, conn, loops, readVars, dispVars>>

PropertyValues == {"0", "1"}

ConnectAny  == \E dialOk, alive \in BOOLEAN : Connect(dialOk, alive)
AbstractOne == \E t \in {Lamp, Sensor} : Abstract(<<t>>)
UpdateAny   == \E loc \in PropertyLocs, v \in PropertyValues : Update(loc, v)

UpdateNext == ConnectAny \/ Disconnect \/ ConnDrop \/ AbstractOne \/ UpdateAny

SpecUpdate == Init /\ [][UpdateNext]_vars

-----------------------------------------------------------------------------
(* Claims about Property.Update and the errors the caller sees.            *)

(* C5 as claimed: of two Update calls in a row on the same property with   *)
(* the same value, a value other than the stored one, made while the write *)
(* path is usable, the first sends one property-change message and the     *)
(* second sends none.                                                      *)
C5_NoOpUpdateAsClaimed ==
    \A i \in 1..(Len(updates) - 1) :
        (/\ updates[i].loc = updates[i + 1].loc
         /\ updates[i].value = updates[i + 1].value
         /\ updates[i].value # updates[i].stored
         /\ updates[i].usable /\ updates[i + 1].usable)
        => (updates[i].sent = 1 /\ updates[i + 1].sent = 0)

(* C10 as claimed: an Update with a new value, or an Abstract, called once *)
(* the connection has dropped returns the write failure of the send path.  *)
C10_ErrorPropagationAsClaimed ==
    /\ \A i \in 1..Len(updates) :
          (updates[i].conn = "closed" /\ updates[i].value # updates[i].stored)
          => updates[i].err = WriteErr
    /\ (ret.op = "Abstract" /\ ret.conn = "closed") => ret.err = WriteErr

-----------------------------------------------------------------------------
(* The peer and the receive loop.                                          *)

(* The peer frames msg as send does and writes it to the connection.       *)
PeerSend(msg) ==
    /\ ~panicked
    /\ conn = "open"
    /\ Len(peerSent) < MaxMsgs
    /\ inStream' = inStream \o FrameBytes(MarshalServer(msg))
    /\ peerSent' = Append(peerSent, msg)
    /\ UNCHANGED <<regVars, connVars, lengthBuf, messageBuf, expectedLength,
                   receivedBytesTotal, readPc, receiveChan, emitted, dispatched, disconnects,
                   dispVars, panicked, callVars>>

(* The numbers of bytes one conn.Read may return when k bytes fit and are  *)
(* there.                                                                  *)
ChunkSizes(k) == {n \in 1..k : n <= MaxChunk \/ n = k}

(* read() past its loop: the client is marked disconnected and            *)
(* OnDisconnect (a listener is registered) invoked.                        *)
ReadExitQuiet == [connected |-> FALSE, disconnects |-> disconnects]

ReadExit == [connected |-> FALSE, disconnects |-> disconnects + 1]

(* read(): one pass of the outer loop up to the decoded length.  A read    *)
(* error ends the loop: the connection is closed (it is closed already     *)
(* when reading from it fails), then ReadExit.                             *)
ReadLen ==
    /\ ~panicked
    /\ loops
    /\ readPc = "len"
    /\ IF conn = "closed"
       THEN /\ readPc' = "done"
            /\ connected' = ReadExit.connected
            /\ disconnects' = ReadExit.disconnects
            /\ UNCHANGED <<inStream, lengthBuf, expectedLength, receivedBytesTotal>>
       ELSE /\ inStream # <<>>
            /\ inStream' = Tail(inStream)
            /\ LET r == ReadUvarint(Append(lengthBuf, Head(inStream)))
               IN  IF r.err
                   THEN /\ lengthBuf' = r.rest
                        /\ UNCHANGED <<expectedLength, receivedBytesTotal, readPc>>
                   ELSE /\ lengthBuf' = <<>>
                        /\ expectedLength' = r.value
                        /\ receivedBytesTotal' = 0
                        /\ readPc' = IF 0 < r.value THEN "data" ELSE "unmarshal"
            /\ UNCHANGED <<connected, disconnects>>
    /\ UNCHANGED <<regVars, conn, writerErr, writerBuf, wire, loops, messageBuf, receiveChan,
                   peerSent, emitted, dispatched, dispVars, panicked, callVars>>

(* read(): one pass of the inner loop.  A read error only leaves the inner *)
(* loop.                                                                   *)
ReadData ==
    /\ ~panicked
    /\ readPc = "data"
    /\ IF conn = "closed"
       THEN /\ readPc' = "unmarshal"
            /\ UNCHANGED <<inStream, messageBuf, receivedBytesTotal>>
       ELSE /\ inStream # <<>>
            /\ \E n \in ChunkSizes(Min(expectedLength - receivedBytesTotal, Len(inStream))) :
                  /\ messageBuf' = messageBuf \o SubSeq(inStream, 1, n)
                  /\ inStream' = SubSeq(inStream, n + 1, Len(inStream))
                  /\ receivedBytesTotal' = receivedBytesTotal + n
                  /\ readPc' = IF receivedBytesTotal + n < expectedLength
                               THEN "data" ELSE "unmarshal"
    /\ UNCHANGED <<regVars, connVars, lengthBuf, expectedLength, receiveChan,
                   peerSent, emitted, dispatched, disconnects, dispVars, panicked, callVars>>

(* read(): decode messageBuf; on an error go on with the next pass         *)
(* (messageBuf keeps its bytes), else reset messageBuf and put the message *)
(* on receiveChan, waiting while it is full.                               *)
ReadEmit ==
    /\ ~panicked
    /\ readPc = "unmarshal"
    /\ LET r == UnmarshalServer(messageBuf)
       IN  IF r.err
           THEN /\ readPc' = "len"
                /\ UNCHANGED <<messageBuf, receiveChan, emitted>>
           ELSE /\ Len(receiveChan) < ChanCap
                /\ messageBuf' = <<>>
                /\ receiveChan' = Append(receiveChan, r.msg)
                /\ emitted' = Append(emitted, r.msg)
                /\ readPc' = "len"
    /\ UNCHANGED <<regVars, connVars, inStream, lengthBuf, expectedLength,
                   receivedBytesTotal, peerSent, disconnects, dispatched, dispVars,
                   panicked, callVars>>

-----------------------------------------------------------------------------
(* The dispatch loop, snapshots and action execution.                      *)

(* Thing.Protocol() and the Protocol() of its parts: the tree without      *)
(* back-references and handlers.                                           *)
PropertyProtocol(property) ==
    [Name |-> property.Name,
     Value |-> [ValueType |-> property.Value.Type, Symbol |-> property.Value.Symbol,
                Value |-> property.Value.Value]]

ActionProtocol(action) == [Name |-> action.Name]

CapabilityProtocol(capability) ==
    [Id |-> capability.Id,
     Actions |-> [i \in 1..Len(capability.Actions) |->
                     ActionProtocol(capability.Actions[i])],
     Properties |-> [i \in 1..Len(capability.Properties) |->
                        PropertyProtocol(capability.Properties[i])]]

ComponentProtocol(component) ==
    [Id |-> component.Id,
     Capabilities |-> [i \in 1..Len(component.Capabilities) |->
                          CapabilityProtocol(component.Capabilities[i])],
     Properties |-> [i \in 1..Len(component.Properties) |->
                        PropertyProtocol(component.Properties[i])],
     Actions |-> [i \in 1..Len(component.Actions) |->
                     ActionProtocol(component.Actions[i])]]

ThingProtocol(t) ==
    [Id |-> t.Id,
     Components |-> [i \in 1..Len(t.Components) |-> ComponentProtocol(t.Components[i])]]

ThingsProtocol(ths) == [i \in 1..Len(ths) |-> ThingProtocol(ths[i])]

RequestThingsResponse(counter, protocolThings) ==
    [kind |-> "requestThingsResponse", updateLock |-> counter, things |-> protocolThings]

(* The first element of seq satisfying Test, as [found, value].            *)
First(seq, Test(_)) ==
    IF \E i \in 1..Len(seq) : Test(seq[i])
    THEN [found |-> TRUE,
          value |-> seq[CHOOSE i \in 1..Len(seq) :
                           Test(seq[i]) /\ \A j \in 1..(i - 1) : ~Test(seq[j])]]
    ELSE [found |-> FALSE]

(* c.getThing(thingId) *)
getThing(ths, thingId) == LET Is(t) == t.Id = thingId IN First(ths, Is)

(* t.GetComponent(componentId) *)
GetComponentAny(t, componentId) ==
    IF t.Components = <<>> THEN [found |-> FALSE]
    ELSE [found |-> TRUE, value |-> t.Components[1]]

GetComponent(t, componentId) ==
    LET Is(c) == c.Id = componentId IN First(t.Components, Is)

(* c.GetAction(actionName): the actions of the capabilities, in order; the *)
(* actions declared directly on the component are not searched.            *)
GetAction(component, actionName) ==
    LET Is(a) == a.Name = actionName
    IN  First(Concat([k \in 1..Len(component.Capabilities) |->
                         component.Capabilities[k].Actions]), Is)

(* The Action a path resolves to, as handleAction finds it.                *)
ResolveAction(ths, path) ==
    LET thing == getThing(ths, path.ThingId)
    IN  IF ~thing.found THEN [found |-> FALSE]
        ELSE LET component == GetComponent(thing.value, path.ComponentId)
             IN  IF ~component.found THEN [found |-> FALSE]
                 ELSE GetAction(component.value, path.Action)

(* The handlers the caller supplies: "ok" returns nil, "fail" an error.    *)
HandlerError(execute, params) ==
    IF execute = "ok" THEN NoErr ELSE [kind |-> "handler", text |-> "refused"]

ExecutionResultSwapped(err, sequence) ==
    [kind |-> "executionResult",
     errorReason |-> IF err = NoErr THEN "" ELSE err.text,
     result |-> IF err = NoErr THEN "FAILURE" ELSE "SUCCESS",
     sequence |-> sequence]

ExecutionResult(err, sequence) ==
    [kind |-> "executionResult",
     errorReason |-> IF err = NoErr THEN "" ELSE err.text,
     result |-> IF err = NoErr THEN "SUCCESS" ELSE "FAILURE",
     sequence |-> sequence]

HandlerCall(action, params) ==
    [action |-> action.Name, execute |-> action.Execute, params |-> params]

(* A receive from a channel holding ch: the oldest element, and what the   *)
(* channel holds afterwards.                                               *)
ReceiveNewest(ch) == [msg |-> ch[Len(ch)], rest |-> SubSeq(ch, 1, Len(ch) - 1)]

Receive(ch) == [msg |-> Head(ch), rest |-> Tail(ch)]

(* handleServerMessages: take the next message off receiveChan.            *)
DispatchRecv ==
    /\ ~panicked
    /\ loops
    /\ pc["dispatch"] = "idle"
    /\ receiveChan # <<>>
    /\ cur' = Receive(receiveChan).msg
    /\ receiveChan' = Receive(receiveChan).rest
    /\ dispatched' = Append(dispatched, Receive(receiveChan).msg)
    /\ pc' = [pc EXCEPT !["dispatch"] =
                 IF Receive(receiveChan).msg.requestThings THEN "sendThings"
                 ELSE IF Receive(receiveChan).msg.action.set THEN "handleAction"
                 ELSE "idle"]
    /\ UNCHANGED <<regVars, connVars, inStream, lengthBuf, messageBuf, expectedLength,
                   receivedBytesTotal, readPc, peerSent, emitted, disconnects,
                   snap, val, ticket, updateCounter, handlerCalls, stamped,
                   panicked, callVars>>

(* Client.PushThings(): the caller's thread enters sendThings.             *)
PushThings ==
    /\ CallerReady
    /\ updateCounter < MaxPush
    /\ pc' = [pc EXCEPT !["caller"] = "sendThings"]
    /\ UNCHANGED <<regVars, connVars, readVars, cur, snap, val, ticket, updateCounter,
                   handlerCalls, stamped, panicked, callVars>>

(* sendThings, first part: convert c.things, then the locked increment of  *)
(* incrementupdateCounter.                                                 *)
SendThingsIncrement(a) ==
    /\ ~panicked
    /\ pc[a] = "sendThings"
    /\ snap' = [snap EXCEPT ![a] = ThingsProtocol(things)]
    /\ updateCounter' = updateCounter + 1
    /\ ticket' = [ticket EXCEPT ![a] = updateCounter + 1]
    /\ pc' = [pc EXCEPT ![a] = "val"]
    /\ UNCHANGED <<regVars, connVars, readVars, cur, val, handlerCalls, stamped,
                   panicked, callVars>>

(* incrementupdateCounter, after Unlock: val := c.updateCounter.           *)
SendThingsValue(a) ==
    /\ ~panicked
    /\ pc[a] = "val"
    /\ val' = [val EXCEPT ![a] = updateCounter]
    /\ stamped' = Append(stamped, [inc |-> ticket[a], val |-> updateCounter])
    /\ pc' = [pc EXCEPT ![a] = "send"]
    /\ UNCHANGED <<regVars, connVars, readVars, cur, snap, ticket, updateCounter,
                   handlerCalls, panicked, callVars>>

(* sendThings, last part: send the snapshot.  The dispatch loop drops the  *)
(* error and goes on with the message; PushThings returns it.              *)
SendThingsSend(a) ==
    /\ ~panicked
    /\ pc[a] = "send"
    /\ LET r == send(RequestThingsResponse(val[a], snap[a]))
       IN  /\ panicked' = r.panic
           /\ wire' = r.wire
           /\ writerBuf' = r.writerBuf
           /\ writerErr' = r.writerErr
           /\ ret' = IF a = "caller" /\ ~r.panic
                     THEN [op |-> "PushThings", err |-> r.err]
                     ELSE ret
    /\ pc' = [pc EXCEPT ![a] =
                 IF a = "dispatch" /\ cur.action.set THEN "handleAction" ELSE "idle"]
    /\ UNCHANGED <<regVars, connected, conn, loops, readVars, cur, snap, val, ticket,
                   updateCounter, handlerCalls, stamped, updates>>

(* handleAction(msg.GetAction()) *)
handleAction ==
    /\ ~panicked
    /\ pc["dispatch"] = "handleAction"
    /\ LET action == ResolveAction(things, cur.action.path)
       IN  IF ~action.found
           THEN UNCHANGED <<handlerCalls, wire, writerErr, writerBuf>>
           ELSE LET err == HandlerError(action.value.Execute, cur.action.parameters)
                    r   == send(ExecutionResult(err, cur.action.sequence))
                IN  /\ handlerCalls' = Append(handlerCalls,
                                           HandlerCall(action.value, cur.action.parameters))
                    /\ wire' = r.wire
                    /\ writerBuf' = r.writerBuf
                    /\ writerErr' = r.writerErr
    /\ pc' = [pc EXCEPT !["dispatch"] = "idle"]
    /\ UNCHANGED <<regVars, connected, conn, loops, readVars, cur, snap, val, ticket,
                   updateCounter, stamped, panicked, callVars>>

SendThingsStep ==
    \E a \in Actors :
        SendThingsIncrement(a) \/ SendThingsValue(a) \/ SendThingsSend(a)

-----------------------------------------------------------------------------
(* Specifications.                                                         *)

(* Framing: the peer sends messages whose encodings take no byte, one      *)
(* byte, two bytes and VarintBase bytes, the last with a length prefix of  *)
(* two bytes.  Nothing is registered.                                      *)
FramingMsgs ==
    {NoMsg,
     ServerMessage(MsgBodies[1].requestThings, MsgBodies[1].action, 0),
     ServerMessage(MsgBodies[4].requestThings, MsgBodies[4].action, 1),
     ServerMessage(MsgBodies[4].requestThings, MsgBodies[4].action, VarintBase - 1)}

PeerSendFramed == \E msg \in FramingMsgs : PeerSend(msg)
ConnectOk      == Connect(TRUE, TRUE)

FramingNext ==
    \/ ConnectOk
    \/ PeerSendFramed
    \/ ReadLen \/ ReadData \/ ReadEmit
    \/ DispatchRecv \/ SendThingsStep \/ handleAction
    \/ ConnDrop

SpecFraming == Init /\ [][FramingNext]_vars

(* Action dispatch: the Lamp is registered at some point, the peer sends   *)
(* short execute-action and request-current-state messages, the caller may *)
(* disconnect.                                                             *)
ShortMsg(i) == ServerMessage(MsgBodies[i].requestThings, MsgBodies[i].action, 0)

ActionMsgs == {ShortMsg(i) : i \in {2, 3, 4, 5, 7, 8, 9}}

PeerSendAction == \E msg \in ActionMsgs : PeerSend(msg)
AbstractLamp   == Abstract(<<Lamp>>)

ActionNext ==
    \/ ConnectOk
    \/ AbstractLamp
    \/ PeerSendAction
    \/ ReadLen \/ ReadData \/ ReadEmit
    \/ DispatchRecv \/ SendThingsStep \/ handleAction
    \/ Disconnect

SpecAction == Init /\ [][ActionNext]_vars

(* The update counter: the peer asks for the current state while the       *)
(* caller pushes it.                                                       *)
PeerSendRequest == PeerSend(ShortMsg(1))

CounterNext ==
    \/ ConnectOk
    \/ AbstractLamp
    \/ PeerSendRequest
    \/ ReadLen \/ ReadData \/ ReadEmit
    \/ DispatchRecv \/ SendThingsStep
    \/ PushThings

SpecCounter == Init /\ [][CounterNext]_vars

-----------------------------------------------------------------------------
(* Claims about framing.                                                   *)

IsPrefix(s, t) == Len(s) <= Len(t) /\ SubSeq(t, 1, Len(s)) = s

(* C1 as claimed: while the connection is up, the messages the receive     *)
(* loop has put on the queue are the first of those the peer framed, in    *)
(* order, and all of them once the stream is read to the end of a frame;   *)
(* for every payload length and every split of the stream into reads.      *)
C1_RoundTripAsClaimed ==
    conn = "open"
    => /\ IsPrefix(emitted, peerSent)
       /\ (inStream = <<>> /\ readPc = "len" /\ lengthBuf = <<>>) => emitted = peerSent

-----------------------------------------------------------------------------
(* Claims about the update counter and action dispatch.                    *)

(* C4 as claimed: the values stamped on snapshots grow strictly in the     *)
(* order of the increments, and no value is stamped twice.                 *)
C4_MonotonicAsClaimed ==
    \A i, j \in 1..Len(stamped) :
        /\ stamped[i].inc < stamped[j].inc => stamped[i].val < stamped[j].val
        /\ i # j => stamped[i].val # stamped[j].val

(* The Actions inside Capabilities that a path names: thing i, component   *)
(* j, capability k, action l.                                              *)
CapabilityActionsAt(ths, path) ==
    {q \in [i : 1..Len(ths), j : 1..2, k : 1..2, l : 1..2] :
        /\ ths[q.i].Id = path.ThingId
        /\ q.j <= Len(ths[q.i].Components)
        /\ ths[q.i].Components[q.j].Id = path.ComponentId
        /\ q.k <= Len(ths[q.i].Components[q.j].Capabilities)
        /\ q.l <= Len(ths[q.i].Components[q.j].Capabilities[q.k].Actions)
        /\ ths[q.i].Components[q.j].Capabilities[q.k].Actions[q.l].Name = path.Action}

Before(p, q) ==
    \/ p.i < q.i
    \/ p.i = q.i /\ p.j < q.j
    \/ p.i = q.i /\ p.j = q.j /\ p.k < q.k
    \/ p.i = q.i /\ p.j = q.j /\ p.k = q.k /\ p.l < q.l

TargetAction(ths, path) ==
    LET q == CHOOSE p \in CapabilityActionsAt(ths, path) :
                 \A r \in CapabilityActionsAt(ths, path) : r = p \/ Before(p, r)
    IN  ths[q.i].Components[q.j].Capabilities[q.k].Actions[q.l]

(* The execution-result the peer is owed for the message in cur.           *)
ResultFor(action) ==
    LET err == HandlerError(action.Execute, cur.action.parameters)
    IN  [kind |-> "executionResult", sequence |-> cur.action.sequence,
         result |-> IF err = NoErr THEN "SUCCESS" ELSE "FAILURE",
         errorReason |-> IF err = NoErr THEN "" ELSE err.text]

HandlesResolvable ==
    /\ pc["dispatch"] = "handleAction"
    /\ pc'["dispatch"] # "handleAction"
    /\ CapabilityActionsAt(things, cur.action.path) # {}

InvokedOnce ==
    handlerCalls' = Append(handlerCalls,
        [action |-> TargetAction(things, cur.action.path).Name,
         execute |-> TargetAction(things, cur.action.path).Execute,
         params |-> cur.action.parameters])

(* C6 as claimed: handling an execute-action message whose path resolves   *)
(* invokes the handler once with the message's arguments and puts one      *)
(* execution-result with the request's sequence number and the handler's   *)
(* status on the wire.                                                     *)
C6_ActionDispatchAsClaimed ==
    [][HandlesResolvable
       => /\ InvokedOnce
          /\ Sent' = Append(Sent, ResultFor(TargetAction(things, cur.action.path)))]_vars

(* C6, amended: the handler is invoked once with the message's arguments;  *)
(* the execution-result is put on the wire when the write path is usable,  *)
(* and when it is not (the connection has dropped) nothing is sent.        *)
C6_ActionDispatch ==
    [][HandlesResolvable
       => /\ InvokedOnce
          /\ IF Usable
             THEN Sent' = Append(Sent, ResultFor(TargetAction(things, cur.action.path)))
             ELSE wire' = wire]_vars

C6_Witness ==
    /\ pc["dispatch"] = "idle"
    /\ cur = ShortMsg(3)
    /\ handlerCalls = <<[action |-> no, execute |-> "fail", params |-> <<>>]>>
    /\ Len(Sent) = 2
    /\ Sent[2] = [kind |-> "executionResult", sequence |-> 8, result |-> "FAILURE",
                  errorReason |-> "refused"]

(* A path matches nothing in the registered tree: no Thing has its thing   *)
(* identifier, or no Component of such a Thing its component identifier,   *)
(* or no Action of such a Component its action name.                       *)
MatchesNothing(ths, path) ==
    ~\E i \in 1..Len(ths) :
        /\ ths[i].Id = path.ThingId
        /\ \E j \in 1..Len(ths[i].Components) :
              /\ ths[i].Components[j].Id = path.ComponentId
              /\ \/ \E l \in 1..Len(ths[i].Components[j].Actions) :
                       ths[i].Components[j].Actions[l].Name = path.Action
                 \/ \E k \in 1..Len(ths[i].Components[j].Capabilities) :
                       \E l \in 1..Len(ths[i].Components[j].Capabilities[k].Actions) :
                          ths[i].Components[j].Capabilities[k].Actions[l].Name
                              = path.Action

(* C7: an execute-action message whose path matches nothing is taken off   *)
(* the queue and handled without a handler invocation and without anything *)
(* being sent, and the dispatch loop is back at the queue.                 *)
C7_UnresolvablePath ==
    [][/\ (/\ pc["dispatch"] = "idle"
           /\ pc'["dispatch"] = "handleAction"
           /\ MatchesNothing(things, cur'.action.path))
          => (wire' = wire /\ handlerCalls' = handlerCalls)
       /\ (/\ pc["dispatch"] = "handleAction"
           /\ pc'["dispatch"] # "handleAction"
           /\ MatchesNothing(things, cur.action.path))
          => /\ wire' = wire
             /\ handlerCalls' = handlerCalls
             /\ pc'["dispatch"] = "idle"
             /\ ~panicked']_vars

C7_Witness ==
    /\ pc["dispatch"] = "idle"
    /\ cur = ShortMsg(7)
    /\ emitted = <<ShortMsg(2), ShortMsg(7)>>
    /\ handlerCalls = <<[action |-> go, execute |-> "ok", params |-> <<"x", "y">>]>>
    /\ Len(Sent) = 2
    /\ conn = "open"


-----------------------------------------------------------------------------
(* Claims about the order of dispatch.                                     *)

(* C11: the dispatch loop takes the messages in the order in which the     *)
(* receive loop put them on receiveChan: the messages taken so far,        *)
(* followed by those still queued, are the messages emitted so far, so     *)
(* none is reordered, duplicated or skipped.                               *)
C11_StreamOrder == dispatched \o receiveChan = emitted

(* Two different messages were emitted and both have been dispatched.      *)
C11_Witness ==
    /\ Len(dispatched) = 2
    /\ dispatched[1] # dispatched[2]
    /\ receiveChan = <<>>
    /\ pc["dispatch"] = "idle"

-----------------------------------------------------------------------------
(* Frames the receive loop cannot decode.                                  *)

(* A payload proto.Unmarshal rejects: its first byte is no encoding of a   *)
(* message.                                                                *)
BadBody == <<Len(MsgBodies) + 1>>

(* What the peer may write that is no well-formed frame: a stray byte with *)
(* the continuation bit set (a length prefix that never ends), and a frame *)
(* whose payload proto.Unmarshal rejects.                                  *)
GarbledUnits == {<<VarintBase>>, FrameBytes(BadBody)}

IsMessage(unit) == "garbled" \notin DOMAIN unit

(* The peer writes a malformed unit to the connection.                     *)
PeerSendGarbled(bytes) ==
    /\ ~panicked
    /\ conn = "open"
    /\ Len(peerSent) < MaxMsgs
    /\ inStream' = inStream \o bytes
    /\ peerSent' = Append(peerSent, [garbled |-> bytes])
    /\ UNCHANGED <<regVars, connVars, lengthBuf, messageBuf, expectedLength,
                   receivedBytesTotal, readPc, receiveChan, emitted, disconnects,
                   dispatched, dispVars, panicked, callVars>>

PeerSendShort      == \E msg \in {ShortMsg(1), ShortMsg(3)} : PeerSend(msg)
PeerSendGarbledAny == \E bytes \in GarbledUnits : PeerSendGarbled(bytes)

DecodeNext ==
    \/ ConnectOk
    \/ PeerSendShort
    \/ PeerSendGarbledAny
    \/ ReadLen \/ ReadData \/ ReadEmit
    \/ DispatchRecv \/ SendThingsStep \/ handleAction

SpecDecode == Init /\ [][DecodeNext]_vars

(* C12 as claimed: the receive loop discards a malformed unit and nothing  *)
(* else: what it has emitted is always a prefix of the well-formed         *)
(* messages the peer has sent, and all of them once the stream is read to  *)
(* its end.                                                                *)
C12_DecodeIsolationAsClaimed ==
    /\ IsPrefix(emitted, SelectSeq(peerSent, IsMessage))
    /\ (inStream = <<>> /\ readPc = "len" /\ lengthBuf = <<>>)
       => emitted = SelectSeq(peerSent, IsMessage)


-----------------------------------------------------------------------------
(* The end of the receive loop.                                            *)

(* The peer sends frames of one and of two payload bytes; the transport    *)
(* may fail and the caller may disconnect at any point after Connect.      *)
TwoByteMsg == ServerMessage(MsgBodies[4].requestThings, MsgBodies[4].action, 1)

PeerSendEither == \E msg \in {ShortMsg(1), TwoByteMsg} : PeerSend(msg)
DisconnectOpen == conn # "none" /\ Disconnect

ReadEndNext ==
    \/ ConnectOk
    \/ PeerSendEither
    \/ ReadLen \/ ReadData \/ ReadEmit
    \/ DispatchRecv \/ SendThingsStep \/ handleAction
    \/ ConnDrop
    \/ DisconnectOpen

(* Both loops are goroutines the scheduler keeps running while they can    *)
(* take a step.                                                            *)
ReadEndFairness ==
    /\ WF_vars(ReadLen) /\ WF_vars(ReadData) /\ WF_vars(ReadEmit)
    /\ WF_vars(DispatchRecv) /\ WF_vars(SendThingsStep) /\ WF_vars(handleAction)

SpecReadEnd == Init /\ [][ReadEndNext]_vars /\ ReadEndFairness

(* C13: once reading from the connection fails, whether read() is at a     *)
(* length prefix or inside a payload, the receive loop ends with the       *)
(* connection closed, the client marked disconnected and OnDisconnect      *)
(* invoked once; OnDisconnect is never invoked a second time.              *)
C13_ReadErrorDisconnect ==
    /\ (loops /\ conn = "closed")
          ~> (readPc = "done" /\ conn = "closed" /\ ~connected /\ disconnects = 1)
    /\ [](disconnects <= 1)
    /\ [](readPc = "done" => conn = "closed" /\ disconnects = 1)

(* The loop has ended after a read error inside a payload.                 *)
C13_Witness ==
    /\ readPc = "done"
    /\ receivedBytesTotal < expectedLength
    /\ ~connected
    /\ disconnects = 1


(* handleServerMessages has returned.  Its only way out is the end of      *)
(* `range c.receiveChan`, reached when the channel is closed and empty;    *)
(* nothing in the package closes c.receiveChan, so no action of the model  *)
(* leads here.                                                             *)
DispatchTerminated == pc["dispatch"] = "done"

(* C14 as claimed: once the client has become disconnected and the         *)
(* receive loop has ended, the dispatch loop consumes what is queued and   *)
(* terminates.                                                             *)
C14_DispatchTerminatesAsClaimed ==
    (loops /\ readPc = "done" /\ ~connected) ~> DispatchTerminated


-----------------------------------------------------------------------------
(* send, one call on c.writer at a time.                                   *)

(* The encoded snapshot actor a is sending.                                *)
SnapshotData(a) == MarshalClient(RequestThingsResponse(val[a], snap[a]))

(* sendThings returns err (PushThings hands it to the caller, the dispatch *)
(* loop drops it and goes on with the message).                            *)
SendThingsReturn(a, err) ==
    /\ pc' = [pc EXCEPT ![a] =
                 IF a = "dispatch" /\ cur.action.set THEN "handleAction" ELSE "idle"]
    /\ ret' = IF a = "caller" THEN [op |-> "PushThings", err |-> err] ELSE ret

(* send: c.writer.Write(lenBytes[:lenLength]).  A nil writer panics, a     *)
(* writer with an earlier error returns it.                                *)
sendWritePrefix(a) ==
    /\ ~panicked
    /\ pc[a] = "send"
    /\ IF conn = "none"
       THEN /\ panicked' = TRUE
            /\ UNCHANGED <<writerBuf, pc, ret>>
       ELSE IF writerErr
       THEN /\ SendThingsReturn(a, WriteErr)
            /\ UNCHANGED <<writerBuf, panicked>>
       ELSE /\ writerBuf' = Append(writerBuf, PrefixOf(SnapshotData(a)))
            /\ pc' = [pc EXCEPT ![a] = "sendData"]
            /\ UNCHANGED <<ret, panicked>>
    /\ UNCHANGED <<regVars, connected, conn, writerErr, wire, loops, readVars, cur,
                   snap, val, ticket, updateCounter, handlerCalls, stamped, updates>>

(* send: c.writer.Write(data) *)
sendWriteData(a) ==
    /\ ~panicked
    /\ pc[a] = "sendData"
    /\ IF writerErr
       THEN /\ SendThingsReturn(a, WriteErr)
            /\ UNCHANGED writerBuf
       ELSE /\ writerBuf' = Append(writerBuf, PayloadOf(SnapshotData(a)))
            /\ pc' = [pc EXCEPT ![a] = "sendFlush"]
            /\ UNCHANGED ret
    /\ UNCHANGED <<regVars, connected, conn, writerErr, wire, loops, readVars, cur,
                   snap, val, ticket, updateCounter, handlerCalls, stamped, panicked,
                   updates>>

(* send: c.writer.Flush() hands all c.writer holds to the connection.      *)
sendFlush(a) ==
    /\ ~panicked
    /\ pc[a] = "sendFlush"
    /\ IF Usable
       THEN /\ wire' = wire \o writerBuf
            /\ writerBuf' = <<>>
            /\ SendThingsReturn(a, NoErr)
            /\ UNCHANGED writerErr
       ELSE /\ writerErr' = TRUE
            /\ SendThingsReturn(a, WriteErr)
            /\ UNCHANGED <<wire, writerBuf>>
    /\ UNCHANGED <<regVars, connected, conn, loops, readVars, cur, snap, val, ticket,
                   updateCounter, handlerCalls, stamped, panicked, updates>>

SendThingsCount == \E a \in Actors : SendThingsIncrement(a) \/ SendThingsValue(a)
SendWrites ==
    \E a \in Actors : sendWritePrefix(a) \/ sendWriteData(a) \/ sendFlush(a)

(* The caller pushes snapshots while the dispatch loop answers requests    *)
(* for the current state; the transport may fail.                          *)
WritersNext ==
    \/ ConnectOk
    \/ PeerSendRequest
    \/ ReadLen \/ ReadData \/ ReadEmit
    \/ DispatchRecv
    \/ SendThingsCount
    \/ SendWrites
    \/ PushThings
    \/ ConnDrop

SpecWriters == Init /\ [][WritersNext]_vars

(* The pieces are whole frames: every prefix is followed at once by the    *)
(* payload it was written for (its payload may be still to come when it is *)
(* the last piece), and every payload follows its prefix.                  *)
WholeFrames(pieces) ==
    \A i \in 1..Len(pieces) :
        IF pieces[i].part = "prefix"
        THEN i < Len(pieces) => pieces[i + 1] = PayloadOf(pieces[i].data)
        ELSE i > 1 /\ pieces[i - 1] = PrefixOf(pieces[i].data)

(* C15 as claimed: what has gone to the connection and what c.writer       *)
(* holds, in the order written, are whole frames, whoever is sending.      *)
C15_NoInterleavingAsClaimed == WholeFrames(wire \o writerBuf)


-----------------------------------------------------------------------------
(* Claims about the back-references.                                       *)

(* The back-references of the properties props that abstract has set.      *)
ClientSet(props) == \A p \in 1..Len(props) : props[p].client # NoRef
ParentSet(props) == \A p \in 1..Len(props) : props[p].parent # NoRef

(* C16 as claimed: in every registered Thing each Component refers to its  *)
(* Thing, each Capability to its Component, and every Property, inside a   *)
(* Capability or directly on a Component, to its parent and to the Client. *)
C16_BackReferencesAsClaimed ==
    \A i \in 1..Len(things) :
        \A j \in 1..Len(things[i].Components) :
            LET component == things[i].Components[j]
            IN  /\ component.parent = things[i].Id
                /\ ClientSet(component.Properties)
                /\ ParentSet(component.Properties)
                /\ \A k \in 1..Len(component.Capabilities) :
                      LET capability == component.Capabilities[k]
                      IN  /\ capability.parent = component.Id
                          /\ ClientSet(capability.Properties)
                          /\ \A p \in 1..Len(capability.Properties) :
                                capability.Properties[p].parent = capability.Id


-----------------------------------------------------------------------------
(* Claims about what Property.Update changes.                              *)

(* C17: a call of Property.Update leaves the registered Things, with the   *)
(* stored value of the property, and the update counter as they are,       *)
(* whether it sends a property-change message or not; with the stored      *)
(* value as its argument it hands nothing to the write path.               *)
C17_UpdateWithoutMutation ==
    [][\A loc \in PropertyLocs, v \in PropertyValues :
          Update(loc, v)
          => /\ things' = things
             /\ updateCounter' = updateCounter
             /\ (PropertyAt(loc).Value.Value = v
                 => wire' = wire /\ writerBuf' = writerBuf)]_vars

(* A first Update has sent a new value and the property still holds the    *)
(* old one; a second Update with the old value has sent nothing.           *)
C17_Witness ==
    /\ Len(updates) = 2
    /\ updates[1].loc = updates[2].loc
    /\ updates[1].value # updates[1].stored
    /\ updates[1].sent = 1
    /\ updates[2].value = updates[1].stored
    /\ updates[2].sent = 0
    /\ ValidLoc(updates[1].loc)
    /\ PropertyAt(updates[1].loc).Value.Value = updates[1].stored


-----------------------------------------------------------------------------
(* Claims about deregistration.                                            *)

(* ths without the Things whose identifier is id, the others in order.     *)
Without(ths, id) == SelectSeq(ths, LAMBDA t : t.Id # id)

-----------------------------------------------------------------------------
(* Claims about the connected flag.                                        *)

(* C19 as claimed: the client is marked connected only after a Connect     *)
(* that completed, its handshake sent; when the last call was a Connect    *)
(* that returned an error the client is not marked connected.              *)
C19_ConnectedFlagAsClaimed ==
    /\ connected => (Sent # <<>> /\ Sent[1] = Hello)
    /\ (ret.op = "Connect" /\ ret.err # NoErr) => ~connected

-----------------------------------------------------------------------------
(* Claims about the actions a path reaches.                                *)

(* C20 as claimed: handling an execute-action message whose path names an  *)
(* Action of a registered Thing, inside a Capability or directly on the    *)
(* Component, invokes a handler for that name and, the write path being    *)
(* usable, sends an execution-result with the request's sequence number.   *)
C20_EveryActionResolvesAsClaimed ==
    [][(/\ pc["dispatch"] = "handleAction"
        /\ pc'["dispatch"] # "handleAction"
        /\ ~MatchesNothing(things, cur.action.path))
       => /\ Len(handlerCalls') = Len(handlerCalls) + 1
          /\ handlerCalls'[Len(handlerCalls')].action = cur.action.path.Action
          /\ Usable => /\ Len(Sent') = Len(Sent) + 1
                       /\ Sent'[Len(Sent')].kind = "executionResult"
                       /\ Sent'[Len(Sent')].sequence = cur.action.sequence]_vars


=============================================================================
